---- MODULE Spec2Model ----
(***************************************************************************)
(* Model of the query layer of geotoolkit: knn_points (geotoolkit/knn.py), *)
(* tag_points_within / filter_points_within (geotoolkit/query.py),         *)
(* nearest / nearest_optimized (analysis.py), buffer / clip                *)
(* (geotoolkit/analysis.py) and to_epsg (geotoolkit/project.py).           *)
(*                                                                         *)
(* Geometries live on an integer grid.  A distance is represented by its   *)
(* square (an integer): the code only compares and sorts distances, and    *)
(* on non-negative numbers d1 <= d2 iff d1^2 <= d2^2, so order, ties and   *)
(* minima are those of the code.                                           *)
(***************************************************************************)
EXTENDS Integers, Sequences, FiniteSets, TLC

VARIABLES points_fc, call, result, pc, props_obj

vars == <<points_fc, call, result, pc, props_obj>>

----------------------------------------------------------------------------
(* Bounds of the model *)

MaxKnnPts == 9
MaxK == 2
MaxTagPts == 3
MaxTargets == 3
MaxCallPts == 2
MaxClipFeats == 2
MaxDist == 3
MaxCoord == 2
MaxArgPts == 2
MaxDemoPts == 2
MaxLine == 3

----------------------------------------------------------------------------
(* Generic helpers *)

Min(a, b) == IF a <= b THEN a ELSE b

Max(a, b) == IF a >= b THEN a ELSE b

Range(s) == {s[i] : i \in DOMAIN s}

(* all the sequences that list every element of S exactly once *)
Perms(S) == {s \in [1..Cardinality(S) -> S] : Range(s) = S}

(* the elements of a set of integers in ascending order *)
RECURSIVE Ascending(_)
Ascending(S) ==
    IF S = {} THEN <<>>
    ELSE LET m == CHOOSE x \in S : \A y \in S : x <= y
         IN <<m>> \o Ascending(S \ {m})

----------------------------------------------------------------------------
(* GeoJSON values and the shapely geometry kernel.                         *)
(* A geometry carries its vertices in order: one vertex for a Point, the   *)
(* closed exterior ring for a Polygon.  Polygons are convex.               *)

PointGeom(xy) == [type |-> "Point", coordinates |-> <<xy>>]

PolygonGeom(ring) == [type |-> "Polygon", coordinates |-> ring]

LineStringGeom(line) == [type |-> "LineString", coordinates |-> line]

Feature(geom, props) == [type |-> "Feature", properties |-> props, geometry |-> geom]

FeatureCollection(feats) == [type |-> "FeatureCollection", features |-> feats]

(* shape(): GeoJSON geometry mapping -> geometry object *)
shape(g) == [geom_type |-> g.type, coords |-> g.coordinates]

(* mapping(): geometry object -> GeoJSON geometry mapping *)
mapping(s) == [type |-> s.geom_type, coordinates |-> s.coords]

Sq(a) == a * a

(* geometry.bounds: <<minx, miny, maxx, maxy>> *)
bounds(s) ==
    LET xs == {s.coords[j][1] : j \in DOMAIN s.coords}
        ys == {s.coords[j][2] : j \in DOMAIN s.coords}
    IN <<CHOOSE x \in xs : \A x2 \in xs : x <= x2,
         CHOOSE y \in ys : \A y2 \in ys : y <= y2,
         CHOOSE x \in xs : \A x2 \in xs : x >= x2,
         CHOOSE y \in ys : \A y2 \in ys : y >= y2>>

(* Point.distance(geometry), squared: between two points, and between a    *)
(* point and a polygon that is an axis-parallel rectangle (the gap to its  *)
(* sides on each axis, 0 inside)                                           *)
distance(p, g) ==
    LET x == p.coords[1][1]
        y == p.coords[1][2]
        b == bounds(g)
        dx == Max(Max(b[1] - x, 0), x - b[3])
        dy == Max(Max(b[2] - y, 0), y - b[4])
    IN Sq(dx) + Sq(dy)

(* mutant: p and the first vertex of g *)
nearest_points_vertex(p, g) ==
    <<p, [geom_type |-> "Point", coords |-> <<g.coords[1]>>]>>

(* shapely.ops.nearest_points(p, g) for a point p: p itself and the point  *)
(* of g closest to p (p clamped into the rectangle)                        *)
nearest_points(p, g) ==
    LET x == p.coords[1][1]
        y == p.coords[1][2]
        b == bounds(g)
        cx == Min(Max(x, b[1]), b[3])
        cy == Min(Max(y, b[2]), b[4])
    IN <<p, [geom_type |-> "Point", coords |-> <<<<cx, cy>>>>]>>

(* mutant: the box of half the radius *)
BufferBoundsHalf(p, radius) ==
    <<p.coords[1][1] - radius \div 2, p.coords[1][2] - radius \div 2,
      p.coords[1][1] + radius \div 2, p.coords[1][2] + radius \div 2>>

(* bounding box of point.buffer(radius): the disk polygon has its extreme  *)
(* vertices in the four axis directions, at exactly +-radius               *)
BufferBounds(p, radius) ==
    <<p.coords[1][1] - radius, p.coords[1][2] - radius,
      p.coords[1][1] + radius, p.coords[1][2] + radius>>

(* mutant: boxes that only touch do not count *)
BoxesIntersectStrict(a, b) ==
    /\ a[1] < b[3] /\ b[1] < a[3]
    /\ a[2] < b[4] /\ b[2] < a[4]

BoxesIntersect(a, b) ==
    /\ a[1] <= b[3] /\ b[1] <= a[3]
    /\ a[2] <= b[4] /\ b[2] <= a[4]

(* mutant: the last geometry of the tree is never reported *)
TreeQueryDropLast(boxes, qbox) ==
    {i \in 0..(Len(boxes) - 2) : BoxesIntersect(boxes[i + 1], qbox)}

(* STRtree(geoms).query(q): the 0-based positions of the tree geometries   *)
(* whose bounding box intersects the bounding box of the query geometry    *)
TreeQuery(boxes, qbox) ==
    {i \in 0..(Len(boxes) - 1) : BoxesIntersect(boxes[i + 1], qbox)}

(* the cross product (b - a) x (p - a): > 0 when p is left of a -> b *)
Cross(a, b, p) == (b[1] - a[1]) * (p[2] - a[2]) - (b[2] - a[2]) * (p[1] - a[1])

(* where a point lies with respect to a convex polygon *)
Locate(poly, pt) ==
    LET ring == poly.coords
        p == pt.coords[1]
        cs == {Cross(ring[j], ring[j + 1], p) : j \in 1..(Len(ring) - 1)}
    IN IF (\A c \in cs : c > 0) \/ (\A c \in cs : c < 0) THEN "interior"
       ELSE IF (\A c \in cs : c >= 0) \/ (\A c \in cs : c <= 0) THEN "boundary"
       ELSE "exterior"

(* mutant: the boundary counts as contained *)
contains_closed(poly, pt) == Locate(poly, pt) # "exterior"

(* Polygon.contains(Point): the point is in the interior *)
contains(poly, pt) == Locate(poly, pt) = "interior"

(* Polygon.covers(Point): the point is in the interior or on the boundary *)
covers(poly, pt) == Locate(poly, pt) # "exterior"

----------------------------------------------------------------------------
(* CPython's set of small integers: cand_idx_set of knn_points.            *)
(* hash(i) = i for an index i; a slot holding -1 is free.                  *)

PySet_MINSIZE == 8
LINEAR_PROBES == 9
PERTURB_SHIFT == 5

set_new ==
    [mask |-> PySet_MINSIZE - 1,
     table |-> [i \in 0..(PySet_MINSIZE - 1) |-> -1],
     fill |-> 0]

(* the slot where key is, or where it is to be stored *)
RECURSIVE set_lookkey(_, _, _, _, _)
set_lookkey(table, mask, key, i, perturb) ==
    IF table[i] = -1 \/ table[i] = key THEN i
    ELSE LET lin == IF i + LINEAR_PROBES <= mask
                    THEN {j \in (i + 1)..(i + LINEAR_PROBES) :
                              table[j] = -1 \/ table[j] = key}
                    ELSE {}
             p == perturb \div (2 ^ PERTURB_SHIFT)
         IN IF lin # {}
            THEN CHOOSE j \in lin : \A j2 \in lin : j <= j2
            ELSE set_lookkey(table, mask, key, (i * 5 + 1 + p) % (mask + 1), p)

(* the keys of a table in slot order: the order in which the set iterates *)
set_iter(so) ==
    SelectSeq([i \in 1..(so.mask + 1) |-> so.table[i - 1]], LAMBDA e : e # -1)

set_keys(so) == {so.table[i] : i \in 0..so.mask} \ {-1}

RECURSIVE set_newsize(_, _)
set_newsize(newsize, minused) ==
    IF newsize <= minused THEN set_newsize(newsize * 2, minused) ELSE newsize

RECURSIVE set_insert_clean(_, _, _)
set_insert_clean(table, mask, keys) ==
    IF keys = <<>> THEN table
    ELSE LET key == Head(keys)
             i == set_lookkey(table, mask, key, key % (mask + 1), key)
         IN set_insert_clean([table EXCEPT ![i] = key], mask, Tail(keys))

set_table_resize(so, minused) ==
    LET newsize == set_newsize(PySet_MINSIZE, minused)
    IN [mask |-> newsize - 1,
        table |-> set_insert_clean([i \in 0..(newsize - 1) |-> -1],
                                   newsize - 1, set_iter(so)),
        fill |-> so.fill]

set_add_key(so, key) ==
    LET i == set_lookkey(so.table, so.mask, key, key % (so.mask + 1), key)
    IN IF so.table[i] = key THEN so
       ELSE LET so2 == [so EXCEPT !.table[i] = key, !.fill = so.fill + 1]
            IN IF so2.fill * 5 < so2.mask * 3 THEN so2
               ELSE set_table_resize(so2, so2.fill * 4)

(* cand_idx_set.update(list(idxs)) *)
RECURSIVE set_update(_, _)
set_update(so, idxs) ==
    IF idxs = <<>> THEN so
    ELSE set_update(set_add_key(so, Head(idxs)), Tail(idxs))

----------------------------------------------------------------------------
(* Outcomes of a call *)

Return(v) == [status |-> "return", value |-> v]

(* a returned value, with the range queries the call made on its way and   *)
(* the positions of the points it computed distances for                   *)
ReturnAfter(v, radii, cand_idx) ==
    [status |-> "return", value |-> v, queries |-> radii,
     candidates |-> Range(cand_idx)]

Raise(e) == [status |-> "raise", exc |-> e]

(* raise e(msg) *)
RaiseWith(e, msg) == [status |-> "raise", exc |-> e, msg |-> msg]

NoResult == [status |-> "none"]

NoCall == [op |-> "none"]

----------------------------------------------------------------------------
(* geotoolkit/knn.py *)

knn_iter_point_features(fc) ==
    SelectSeq(fc.features, LAMBDA ft : ft.geometry.type = "Point")

InitialRadius == 50
(* mutant: one more round *)
ExpandRoundsPlusOne == 8 + 1

(* for _ in range(8) *)
ExpandRounds == 8

(* The orders in which tree.query may list the hits that are not yet in    *)
(* the set (a hit already in the set leaves the table as it is).  STRtree  *)
(* lists hits in tree order, which is not the input order.  More than      *)
(* four new hits are listed in ascending order only: the fifth insertion   *)
(* resizes the table to 32 slots, where every index below 32 has a slot of *)
(* its own, and the iteration order no longer depends on insertion order.  *)
TreeQueryOrders(news) ==
    IF Cardinality(news) < 5 THEN Perms(news) ELSE {Ascending(news)}

(* the for-loop of knn_points: the tables cand_idx_set may end as, each    *)
(* with the radii of the range queries made, in the order they were made   *)
RECURSIVE knn_expand(_, _, _, _, _, _)
knn_expand(boxes, target, k, rounds, radius, so) ==
    IF rounds = 0 THEN {[so |-> so, radii |-> <<>>]}
    ELSE LET envelope == BufferBounds(target, radius)
             idxs == TreeQuery(boxes, envelope)
             news == idxs \ set_keys(so)
         IN UNION {LET so2 == set_update(so, ord)
                   IN IF so2.fill >= k THEN {[so |-> so2, radii |-> <<radius>>]}
                      ELSE {[so |-> x.so, radii |-> <<radius>> \o x.radii]
                            : x \in knn_expand(boxes, target, k, rounds - 1,
                                               radius * 2, so2)}
                   : ord \in TreeQueryOrders(news)}

range(n) == [j \in 1..n |-> j - 1]

(* mutant: no fall back to all points *)
knn_cand_idx_no_fallback(pts, target, k, use_index) ==
    IF ~use_index THEN {[cand_idx |-> range(Len(pts)), radii |-> <<>>]}
    ELSE LET boxes == [j \in 1..Len(pts) |-> bounds(pts[j])]
         IN {[cand_idx |-> set_iter(x.so), radii |-> x.radii]
             : x \in knn_expand(boxes, target, k, ExpandRounds, InitialRadius, set_new)}

(* candidate selection: the sequences the loop over cand_idx may follow,   *)
(* each with the radii of the range queries that led to it                 *)
knn_cand_idx(pts, target, k, use_index) ==
    IF ~use_index THEN {[cand_idx |-> range(Len(pts)), radii |-> <<>>]}
    ELSE LET boxes == [j \in 1..Len(pts) |-> bounds(pts[j])]
         IN {[cand_idx |-> IF x.so.fill >= k THEN set_iter(x.so) ELSE range(Len(pts)),
              radii |-> x.radii]
             : x \in knn_expand(boxes, target, k, ExpandRounds, InitialRadius, set_new)}

(* mutant: the list is left as it is *)
sort_skipped(acc, rest) == acc \o rest

(* list.sort(key=lambda x: x[0]): a stable sort on the first component *)
RECURSIVE sort_by_key(_, _)
sort_by_key(acc, rest) ==
    IF rest = <<>> THEN acc
    ELSE LET x == Head(rest)
             n == Cardinality({j \in 1..Len(acc) : acc[j][1] <= x[1]})
         IN sort_by_key(SubSeq(acc, 1, n) \o <<x>> \o SubSeq(acc, n + 1, Len(acc)),
                        Tail(rest))

(* the distances, the sort, the cut to k and the output features *)
knn_rank(point_feats, pts, target, k, cand_idx) ==
    LET dist_list == [j \in 1..Len(cand_idx) |->
                         <<distance(target, pts[cand_idx[j] + 1]), cand_idx[j]>>]
        sorted == sort_by_key(<<>>, dist_list)
        topk == SubSeq(sorted, 1, Min(k, Len(sorted)))
        out_features ==
            [rank \in 1..Len(topk) |->
                LET d == topk[rank][1]
                    i == topk[rank][2]
                    ft == point_feats[i + 1]
                    props == ("knn_rank" :> rank) @@ ("distance_m" :> d) @@ ft.properties
                IN Feature(mapping(pts[i + 1]), props)]
    IN FeatureCollection(out_features)

(* mutant: only a negative k is refused *)
knn_k_negative(k) == k < 0

(* if k <= 0 *)
knn_k_invalid(k) == k <= 0

(* mutant: the target is checked before k *)
knn_validate_target_first(fc, target_point_geom, k) ==
    IF shape(target_point_geom).geom_type # "Point"
    THEN <<RaiseWith("ValueError", "target_point_geom must be a Point geometry")>>
    ELSE IF knn_k_invalid(k) THEN <<RaiseWith("ValueError", "k must be > 0")>>
    ELSE IF fc.type # "FeatureCollection"
    THEN <<RaiseWith("ValueError", "points_fc must be a GeoJSON FeatureCollection")>>
    ELSE <<>>

(* the checks of knn_points and of its _iter_point_features, in the order  *)
(* they are made: the exception of the first that fails, <<>> if none does *)
knn_validate(fc, target_point_geom, k) ==
    IF knn_k_invalid(k) THEN <<RaiseWith("ValueError", "k must be > 0")>>
    ELSE IF shape(target_point_geom).geom_type # "Point"
    THEN <<RaiseWith("ValueError", "target_point_geom must be a Point geometry")>>
    ELSE IF fc.type # "FeatureCollection"
    THEN <<RaiseWith("ValueError", "points_fc must be a GeoJSON FeatureCollection")>>
    ELSE <<>>

(* knn_points: the set of outcomes the call may have; a returned outcome   *)
(* carries, next to the value, the radii of the range queries of the call  *)
knn_points(fc, target_point_geom, k, use_index) ==
    IF knn_validate(fc, target_point_geom, k) # <<>>
    THEN {knn_validate(fc, target_point_geom, k)[1]}
    ELSE LET target == shape(target_point_geom)
             point_feats == knn_iter_point_features(fc)
             pts == [j \in 1..Len(point_feats) |-> shape(point_feats[j].geometry)]
         IN {ReturnAfter(knn_rank(point_feats, pts, target, k, c.cand_idx),
                         c.radii, c.cand_idx)
             : c \in knn_cand_idx(pts, target, k, use_index)}

----------------------------------------------------------------------------
(* geotoolkit/query.py *)

(* mutant: every feature is taken *)
iter_all_features(fc) == fc.features

(* _iter_point_features: the features whose geometry is a Point *)
iter_point_features(fc) ==
    SelectSeq(fc.features, LAMBDA ft : ft.geometry.type = "Point")

(* mutant: props = {}; props[prop] = bool(inside), the id apart *)
tag_props_bare(ft, prop, inside) == (prop :> inside) @@ [id |-> ft.properties.id]

(* props = dict(ft.get("properties", {})); props[prop] = bool(inside) *)
tag_props(ft, prop, inside) == (prop :> inside) @@ ft.properties

(* the baseline loop of tag_points_within *)
tag_baseline(point_feats, poly, prop, mode) ==
    [j \in 1..Len(point_feats) |->
        LET ft == point_feats[j]
            pt == shape(ft.geometry)
            inside == IF mode = "contains" THEN contains(poly, pt) ELSE covers(poly, pt)
        IN Feature(mapping(pt), tag_props(ft, prop, inside))]

(* the indexed loop of tag_points_within *)
tag_indexed(point_feats, poly, prop, mode) ==
    LET pts == [j \in 1..Len(point_feats) |-> shape(point_feats[j].geometry)]
        boxes == [j \in 1..Len(pts) |-> bounds(pts[j])]
        candidate_idx == TreeQuery(boxes, bounds(poly))
    IN [j \in 1..Len(point_feats) |->
           LET ft == point_feats[j]
               pt == pts[j]
               inside == IF (j - 1) \in candidate_idx
                         THEN (IF mode = "covers" THEN covers(poly, pt)
                                                  ELSE contains(poly, pt))
                         ELSE FALSE
           IN Feature(mapping(pt), tag_props(ft, prop, inside))]

(* mutant: no mode is refused *)
tag_mode_any(mode) == FALSE

(* if mode not in ("contains", "covers") *)
tag_mode_invalid(mode) == mode \notin {"contains", "covers"}

tag_points_within(fc, polygon_geom, prop, use_index, mode) ==
    LET poly == shape(polygon_geom)
    IN IF tag_mode_invalid(mode) THEN Raise("ValueError")
       ELSE IF fc.type # "FeatureCollection" THEN Raise("ValueError")
       ELSE LET point_feats == iter_point_features(fc)
            IN IF ~use_index
               THEN Return(FeatureCollection(tag_baseline(point_feats, poly, prop, mode)))
               ELSE Return(FeatureCollection(tag_indexed(point_feats, poly, prop, mode)))

(* mutant: every tagged feature is kept *)
is_tagged(ft) == "_inside" \in DOMAIN ft.properties

(* ft.get("properties", {}).get("_inside") is True *)
is_inside(ft) ==
    "_inside" \in DOMAIN ft.properties /\ ft.properties["_inside"] = TRUE

(* ft["properties"].pop("_inside", None) *)
pop_inside(ft) ==
    [ft EXCEPT !.properties =
        [key \in (DOMAIN ft.properties) \ {"_inside"} |-> ft.properties[key]]]

filter_points_within(fc, polygon_geom, use_index, mode) ==
    LET tagged == tag_points_within(fc, polygon_geom, "_inside", use_index, mode)
    IN IF tagged.status = "raise" THEN tagged
       ELSE LET inside_feats == SelectSeq(tagged.value.features, is_inside)
            IN Return(FeatureCollection(
                   [j \in 1..Len(inside_feats) |-> pop_inside(inside_feats[j])]))

----------------------------------------------------------------------------
(* analysis.py *)

nearest(a_geom, b_geom) ==
    LET A == shape(a_geom)
        B == shape(b_geom)
        pp == nearest_points(A, B)
    IN <<distance(pp[1], pp[2]), mapping(pp[1]), mapping(pp[2])>>

(* mutant: the first geometry of the tree *)
TreeNearestFirst(targets, q) == {i \in 0..(Len(targets) - 1) : i = 0}

(* STRtree(targets).nearest(q): the 0-based positions the call may return. *)
(* One of the geometries at the least distance, whichever the tree visits  *)
(* first; None (modelled as no position) when the tree is empty.           *)
TreeNearest(targets, q) ==
    {i \in 0..(Len(targets) - 1) :
        \A i2 \in 0..(Len(targets) - 1) :
            distance(q, targets[i + 1]) <= distance(q, targets[i2 + 1])}

(* nearest_optimized: the set of outcomes the call may have; indexing the  *)
(* list of targets with None raises TypeError                              *)
nearest_optimized(search_geom, target_collection) ==
    LET search_shape == shape(search_geom)
        targets == [j \in 1..Len(target_collection.features) |->
                       shape(target_collection.features[j].geometry)]
    IN IF Len(targets) = 0 THEN {Raise("TypeError")}
       ELSE {LET nearest_geom == targets[nearest_idx + 1]
             IN Return(<<distance(search_shape, nearest_geom), mapping(nearest_geom)>>)
             : nearest_idx \in TreeNearest(targets, search_shape)}

----------------------------------------------------------------------------
(* geotoolkit/analysis.py: buffer and clip.  Polygons are axis-parallel    *)
(* rectangles here, given by the five vertices of their ring.              *)

(* the rectangle <<minx, miny, maxx, maxy>> as a polygon *)
BoxShape(b) ==
    [geom_type |-> "Polygon",
     coords |-> <<<<b[1], b[2]>>, <<b[3], b[2]>>, <<b[3], b[4]>>, <<b[1], b[4]>>,
                  <<b[1], b[2]>>>>]

(* an empty geometry: no coordinates *)
EmptyShape(geom_type) == [geom_type |-> geom_type, coords |-> <<>>]

(* mutant: no geometry counts as empty *)
is_empty_never(s) == FALSE

(* geometry.is_empty *)
is_empty(s) == s.coords = <<>>

(* geom.intersection(clipper), clipper a rectangle: a point is kept when   *)
(* the clipper covers it; two rectangles meet in the rectangle of their    *)
(* common x and y ranges, which is a segment or a single point when they   *)
(* only touch                                                              *)
intersection(geom, clipper) ==
    IF geom.geom_type = "Point"
    THEN (IF covers(clipper, geom) THEN geom ELSE EmptyShape("Point"))
    ELSE LET a == bounds(geom)
             c == bounds(clipper)
             b == <<Max(a[1], c[1]), Max(a[2], c[2]), Min(a[3], c[3]), Min(a[4], c[4])>>
         IN IF b[1] > b[3] \/ b[2] > b[4] THEN EmptyShape("Polygon")
            ELSE IF b[1] = b[3] /\ b[2] = b[4]
                 THEN [geom_type |-> "Point", coords |-> <<<<b[1], b[2]>>>>]
            ELSE IF b[1] = b[3] \/ b[2] = b[4]
                 THEN [geom_type |-> "LineString",
                       coords |-> <<<<b[1], b[2]>>, <<b[3], b[4]>>>>]
            ELSE BoxShape(b)

(* rectangle.buffer(dist), dist > 0, with each quarter circle at a corner  *)
(* cut to its chord: the octagon through the eight points at distance dist *)
(* of the corners in the axis directions.  The polygon shapely builds at   *)
(* its default resolution has these eight points among its vertices and    *)
(* all others on the quarter circles, outside of the chords.               *)
shape_buffer(g, dist) ==
    LET b == bounds(g)
    IN [geom_type |-> "Polygon",
        coords |-> <<<<b[1], b[2] - dist>>, <<b[3], b[2] - dist>>,
                     <<b[3] + dist, b[2]>>, <<b[3] + dist, b[4]>>,
                     <<b[3], b[4] + dist>>, <<b[1], b[4] + dist>>,
                     <<b[1] - dist, b[4]>>, <<b[1] - dist, b[2]>>,
                     <<b[1], b[2] - dist>>>>]

(* mutant: the geometry comes back as it is *)
buffer_none(geometry, dist_m) == geometry

(* buffer *)
buffer(geometry, dist_m) ==
    LET g == shape(geometry)
    IN mapping(shape_buffer(g, dist_m))

(* _clip_feature: <<>> stands for None, <<ft>> for a feature ft *)
clip_feature(ft, clipper) ==
    LET geom == shape(ft.geometry)
        inter == intersection(geom, clipper)
    IN IF is_empty(inter) THEN <<>>
       ELSE <<[type |-> "Feature", properties |-> ft.properties,
               geometry |-> mapping(inter)]>>

RECURSIVE clip_features(_, _)
clip_features(feats, clipper) ==
    IF feats = <<>> THEN <<>>
    ELSE clip_feature(Head(feats), clipper) \o clip_features(Tail(feats), clipper)

(* clip *)
clip(feature_or_fc, clipper_geom) ==
    LET clipper == shape(clipper_geom)
        t == feature_or_fc.type
    IN IF t = "FeatureCollection"
       THEN Return(FeatureCollection(clip_features(feature_or_fc.features, clipper)))
       ELSE IF t = "Feature"
       THEN Return(FeatureCollection(clip_feature(feature_or_fc, clipper)))
       ELSE Return(mapping(intersection(shape(feature_or_fc), clipper)))

----------------------------------------------------------------------------
(* geotoolkit/project.py *)

(* transformer.transform(x, y) of pyproj, from EPSG:epsg_from to           *)
(* EPSG:epsg_to: a stand-in that moves every point of the grid unless the  *)
(* two codes are the same                                                  *)
transform(epsg_from, epsg_to, xy) ==
    IF epsg_from = epsg_to THEN xy ELSE <<xy[1] * 100, xy[2] * 100>>

(* _transform_geom *)
transform_geom(geom, epsg_from, epsg_to) ==
    LET g == shape(geom)
    IN mapping([g EXCEPT !.coords = [j \in DOMAIN g.coords |->
                                        transform(epsg_from, epsg_to, g.coords[j])]])

(* to_epsg *)
to_epsg(feature_or_fc, epsg_from, epsg_to) ==
    IF feature_or_fc.type = "FeatureCollection"
    THEN Return(FeatureCollection(
             [j \in 1..Len(feature_or_fc.features) |->
                 LET ft == feature_or_fc.features[j]
                 IN [type |-> "Feature", properties |-> ft.properties,
                     geometry |-> transform_geom(ft.geometry, epsg_from, epsg_to)]]))
    ELSE IF feature_or_fc.type = "Feature"
    THEN Return([type |-> "Feature", properties |-> feature_or_fc.properties,
                 geometry |-> transform_geom(feature_or_fc.geometry, epsg_from, epsg_to)])
    ELSE Return(transform_geom(feature_or_fc, epsg_from, epsg_to))

----------------------------------------------------------------------------
(* The dicts that hold properties.  props_obj names, for every feature of  *)
(* the returned collection, the dict object its "properties" refers to:    *)
(* InputDict(i) is the properties dict of the i-th feature of the caller's *)
(* collection, NewDict(i) a dict the call made from it.  A write to an     *)
(* InputDict is a write to the caller's collection.                        *)

InputDict(i) == <<"input", i>>
NewDict(i) == <<"new", i>>

(* mutant: props = ft.get("properties", {}) *)
dict_same(obj) == obj

(* dict(ft.get("properties", {})): a new dict with the items of obj *)
dict_copy(obj) == NewDict(obj[2])

(* the features of a returned collection, or the returned feature *)
ReturnedFeatures(out) ==
    IF out.status # "return" THEN <<>>
    ELSE IF out.value.type = "FeatureCollection" THEN out.value.features
    ELSE IF out.value.type = "Feature" THEN <<out.value>>
    ELSE <<>>

(* the dicts that tag_points_within and knn_points write the properties of *)
(* their output features to; a feature's id is its position in the input   *)
PropsObjects(feats) ==
    [j \in 1..Len(feats) |-> dict_copy(InputDict(feats[j].properties.id))]

(* "properties": ft.get("properties", {}): the dict of the input feature *)
get_properties(obj) == obj

(* the dicts the output features of clip and to_epsg refer to *)
SharedPropsObjects(feats) ==
    [j \in 1..Len(feats) |-> get_properties(InputDict(feats[j].properties.id))]

(* the caller's collection once the properties of feats are written to     *)
(* the dicts objs                                                          *)
Written(fc, objs, feats) ==
    [fc EXCEPT !.features =
        [i \in 1..Len(fc.features) |->
            LET js == {j \in 1..Len(objs) : objs[j] = InputDict(i)}
            IN IF js = {} THEN fc.features[i]
               ELSE [fc.features[i] EXCEPT
                        !.properties = feats[CHOOSE j \in js : TRUE].properties]]]

(* the caller's collection after a call of tag_points_within or knn_points *)
(* with outcome out                                                        *)
AfterCall(fc, out) ==
    IF ReturnedFeatures(out) = <<>> THEN fc
    ELSE Written(fc, PropsObjects(ReturnedFeatures(out)), ReturnedFeatures(out))

----------------------------------------------------------------------------
(* Inputs of the k-NN runs.  The target is the origin.  KnnNear lies in    *)
(* the first search square (|x|, |y| <= 50) at distance 60; KnnAxis lies   *)
(* outside it, at distance 51; KnnFar lies outside the last search square  *)
(* (radius 6400).                                                          *)

KnnTarget == PointGeom(<<0, 0>>)
KnnNear == <<48, 36>>
KnnAxis == <<51, 0>>
KnnFar == <<0, 7000>>

KnnCoords == {KnnNear, KnnAxis, KnnFar}

KnnLine == LineStringGeom(<<KnnNear, KnnAxis>>)

(* the points at the coordinates c, alone or behind one feature that is   *)
(* no Point; a feature's id is its position in the collection              *)
KnnCollection(c, lead) ==
    LET g == (IF lead THEN <<KnnLine>> ELSE <<>>) \o [j \in 1..Len(c) |-> PointGeom(c[j])]
    IN FeatureCollection([j \in 1..Len(g) |-> Feature(g[j], [id |-> j])])

----------------------------------------------------------------------------
(* The caller *)

KnnPoints(target_point_geom, k, use_index) ==
    /\ pc = "idle"
    /\ call' = [op |-> "knn_points", target_point_geom |-> target_point_geom,
                k |-> k, use_index |-> use_index]
    /\ \E out \in knn_points(points_fc, target_point_geom, k, use_index) :
           /\ result' = out
           /\ props_obj' = PropsObjects(ReturnedFeatures(out))
           /\ points_fc' = AfterCall(points_fc, out)
    /\ pc' = "done"

(* the caller drops the result and is free to call again *)
Release ==
    /\ pc = "done"
    /\ pc' = "idle"
    /\ call' = NoCall
    /\ result' = NoResult
    /\ props_obj' = <<>>
    /\ UNCHANGED points_fc

InitKnn ==
    /\ \E n \in 0..MaxKnnPts : \E c \in [1..n -> KnnCoords] : \E lead \in BOOLEAN :
           points_fc = KnnCollection(c, lead)
    /\ call = NoCall
    /\ result = NoResult
    /\ pc = "idle"
    /\ props_obj = <<>>

NextKnn ==
    \/ \E k \in -1..MaxK, use_index \in BOOLEAN : KnnPoints(KnnTarget, k, use_index)
    \/ Release

SpecKnn == InitKnn /\ [][NextKnn]_vars

----------------------------------------------------------------------------
(* Inputs of the containment runs: the square of the tests, a triangle     *)
(* (half of the square, so that its bounding box holds points outside it), *)
(* and points inside, on the boundary and outside of each.                 *)

Square == PolygonGeom(<<<<0, 0>>, <<10, 0>>, <<10, 10>>, <<0, 10>>, <<0, 0>>>>)
Triangle == PolygonGeom(<<<<0, 0>>, <<10, 0>>, <<0, 10>>, <<0, 0>>>>)

TagPolygons == {Square, Triangle}
TagCoords == {<<2, 2>>, <<5, 5>>, <<0, 0>>, <<10, 5>>, <<8, 8>>, <<20, 20>>}
TagModes == {"contains", "covers", "within"}

TagGeoms == {PointGeom(c) : c \in TagCoords} \cup {LineStringGeom(<<<<2, 2>>, <<20, 20>>>>)}

(* a feature's id is its position; a feature may already carry a property  *)
(* named "_inside"                                                         *)
TagCollection(g, own) ==
    FeatureCollection([j \in 1..Len(g) |->
        Feature(g[j], IF own[j] THEN ("_inside" :> TRUE) @@ [id |-> j] ELSE [id |-> j])])

TagPointsWithin(polygon_geom, prop, use_index, mode) ==
    /\ pc = "idle"
    /\ call' = [op |-> "tag_points_within", polygon_geom |-> polygon_geom,
                prop |-> prop, use_index |-> use_index, mode |-> mode]
    /\ LET out == tag_points_within(points_fc, polygon_geom, prop, use_index, mode)
       IN /\ result' = out
          /\ props_obj' = PropsObjects(ReturnedFeatures(out))
          /\ points_fc' = AfterCall(points_fc, out)
    /\ pc' = "done"

FilterPointsWithin(polygon_geom, use_index, mode) ==
    /\ pc = "idle"
    /\ call' = [op |-> "filter_points_within", polygon_geom |-> polygon_geom,
                use_index |-> use_index, mode |-> mode]
    /\ LET tagged == tag_points_within(points_fc, polygon_geom, "_inside", use_index, mode)
           out == filter_points_within(points_fc, polygon_geom, use_index, mode)
       IN /\ result' = out
          /\ props_obj' = PropsObjects(ReturnedFeatures(out))
          /\ points_fc' = AfterCall(AfterCall(points_fc, tagged), out)
    /\ pc' = "done"

InitQuery ==
    /\ \E n \in 0..MaxTagPts : \E g \in [1..n -> TagGeoms] : \E own \in [1..n -> BOOLEAN] :
           points_fc = TagCollection(g, own)
    /\ call = NoCall
    /\ result = NoResult
    /\ pc = "idle"
    /\ props_obj = <<>>

(* the property names a caller tags with: one no input feature carries,   *)
(* and one some input features already carry                               *)
TagProps == {"inside", "_inside"}

NextQuery ==
    \/ \E G \in TagPolygons, prop \in TagProps, use_index \in BOOLEAN, mode \in TagModes :
           TagPointsWithin(G, prop, use_index, mode)
    \/ \E G \in TagPolygons, use_index \in BOOLEAN, mode \in TagModes :
           FilterPointsWithin(G, use_index, mode)
    \/ Release

SpecQuery == InitQuery /\ [][NextQuery]_vars

----------------------------------------------------------------------------
(* Inputs of the nearest runs: point queries against collections of points *)
(* and rectangles, with ties (two points at distance 5 of the origin; a    *)
(* point and the square at distance 5 of (15, 5)).                         *)

NearQueries == {PointGeom(<<0, 0>>), PointGeom(<<15, 5>>), PointGeom(<<5, 5>>)}

FarRect == PolygonGeom(<<<<30, 0>>, <<40, 0>>, <<40, 10>>, <<30, 10>>, <<30, 0>>>>)

NearGeoms ==
    {PointGeom(<<3, 4>>), PointGeom(<<4, 3>>), PointGeom(<<20, 5>>), Square, FarRect}

NearCollection(g) ==
    FeatureCollection([j \in 1..Len(g) |-> Feature(g[j], [id |-> j])])

NearestOptimized(search_geom) ==
    /\ pc = "idle"
    /\ call' = [op |-> "nearest_optimized", search_geom |-> search_geom]
    /\ result' \in nearest_optimized(search_geom, points_fc)
    /\ pc' = "done"
    /\ UNCHANGED <<points_fc, props_obj>>

Nearest(a_geom, b_geom) ==
    /\ pc = "idle"
    /\ call' = [op |-> "nearest", a_geom |-> a_geom, b_geom |-> b_geom]
    /\ result' = Return(nearest(a_geom, b_geom))
    /\ pc' = "done"
    /\ UNCHANGED <<points_fc, props_obj>>

InitNearest ==
    /\ \E n \in 0..MaxTargets : \E g \in [1..n -> NearGeoms] :
           points_fc = NearCollection(g)
    /\ call = NoCall
    /\ result = NoResult
    /\ pc = "idle"
    /\ props_obj = <<>>

NextNearest ==
    \/ \E q \in NearQueries : NearestOptimized(q)
    \/ \E a \in NearQueries, b \in NearGeoms : Nearest(a, b)
    \/ Release

SpecNearest == InitNearest /\ [][NextNearest]_vars

----------------------------------------------------------------------------
(* Sequences of calls of the three point queries on one collection, the    *)
(* caller writing to the features it got back in between.                  *)

(* the caller sets a property of the j-th returned feature: the write goes *)
(* to the dict that feature refers to                                      *)
WriteOutputProperty(j, key, v) ==
    /\ pc = "done"
    /\ j \in 1..Len(props_obj)
    /\ result.value.type = "FeatureCollection"
    /\ LET ft == result.value.features[j]
           written == [ft EXCEPT !.properties = (key :> v) @@ ft.properties]
       IN /\ result' = [result EXCEPT !.value.features[j] = written]
          /\ points_fc' = Written(points_fc, <<props_obj[j]>>, <<written>>)
    /\ UNCHANGED <<call, pc, props_obj>>

InitCalls ==
    /\ \E n \in 0..MaxCallPts : \E g \in [1..n -> TagGeoms] : \E own \in [1..n -> BOOLEAN] :
           points_fc = TagCollection(g, own)
    /\ call = NoCall
    /\ result = NoResult
    /\ pc = "idle"
    /\ props_obj = <<>>

NextCalls ==
    \/ \E G \in TagPolygons, use_index \in BOOLEAN, mode \in TagModes :
           TagPointsWithin(G, "inside", use_index, mode)
    \/ \E G \in TagPolygons, use_index \in BOOLEAN, mode \in TagModes :
           FilterPointsWithin(G, use_index, mode)
    \/ \E k \in 1..MaxK, use_index \in BOOLEAN : KnnPoints(KnnTarget, k, use_index)
    \/ \E j \in 1..MaxCallPts : WriteOutputProperty(j, "_viz_type", "SampledPoint")
    \/ Release

SpecCalls == InitCalls /\ [][NextCalls]_vars

----------------------------------------------------------------------------
(* Inputs of the buffer, clip and to_epsg runs: the square of the tests as *)
(* the clipper, with points inside, on and outside of it, and rectangles   *)
(* that overlap it, share an edge or a corner with it, or lie apart.       *)

PartRect == PolygonGeom(<<<<5, 5>>, <<15, 5>>, <<15, 15>>, <<5, 15>>, <<5, 5>>>>)
EdgeRect == PolygonGeom(<<<<10, 0>>, <<20, 0>>, <<20, 10>>, <<10, 10>>, <<10, 0>>>>)
CornerRect == PolygonGeom(<<<<10, 10>>, <<20, 10>>, <<20, 20>>, <<10, 20>>, <<10, 10>>>>)

ClipRects == {PartRect, EdgeRect, CornerRect, FarRect}
ClipGeoms ==
    {PointGeom(<<5, 5>>), PointGeom(<<100, 100>>), PointGeom(<<10, 5>>)} \cup ClipRects
Clippers == {Square, FarRect}

ClipCollection(g) ==
    FeatureCollection([j \in 1..Len(g) |-> Feature(g[j], [id |-> j])])

(* what a caller may pass as feature_or_fc: the collection, one of its     *)
(* features, or the geometry of one of its features                        *)
FeatureOrFc(fc) ==
    {fc} \cup {fc.features[i] : i \in 1..Len(fc.features)}
         \cup {fc.features[i].geometry : i \in 1..Len(fc.features)}

Buffer(geometry, dist_m) ==
    /\ pc = "idle"
    /\ call' = [op |-> "buffer", geometry |-> geometry, dist_m |-> dist_m]
    /\ result' = Return(buffer(geometry, dist_m))
    /\ pc' = "done"
    /\ UNCHANGED <<points_fc, props_obj>>

Clip(feature_or_fc, clipper_geom) ==
    /\ pc = "idle"
    /\ call' = [op |-> "clip", feature_or_fc |-> feature_or_fc,
                clipper_geom |-> clipper_geom]
    /\ LET out == clip(feature_or_fc, clipper_geom)
       IN /\ result' = out
          /\ props_obj' = SharedPropsObjects(ReturnedFeatures(out))
    /\ pc' = "done"
    /\ UNCHANGED points_fc

ToEpsg(feature_or_fc, epsg_from, epsg_to) ==
    /\ pc = "idle"
    /\ call' = [op |-> "to_epsg", feature_or_fc |-> feature_or_fc,
                epsg_from |-> epsg_from, epsg_to |-> epsg_to]
    /\ LET out == to_epsg(feature_or_fc, epsg_from, epsg_to)
       IN /\ result' = out
          /\ props_obj' = SharedPropsObjects(ReturnedFeatures(out))
    /\ pc' = "done"
    /\ UNCHANGED points_fc

InitClip ==
    /\ \E n \in 0..MaxClipFeats : \E g \in [1..n -> ClipGeoms] :
           points_fc = ClipCollection(g)
    /\ call = NoCall
    /\ result = NoResult
    /\ pc = "idle"
    /\ props_obj = <<>>

NextClip ==
    \/ \E g \in ClipRects \cup {Square}, dist_m \in 1..MaxDist : Buffer(g, dist_m)
    \/ \E x \in FeatureOrFc(points_fc), c \in Clippers : Clip(x, c)
    \/ \E x \in FeatureOrFc(points_fc) : ToEpsg(x, 4326, 3857)
    \/ \E j \in 1..MaxClipFeats : WriteOutputProperty(j, "_viz_type", "SampledPoint")
    \/ Release

SpecClip == InitClip /\ [][NextClip]_vars

----------------------------------------------------------------------------
(* Calls of knn_points with arguments it may refuse: as points a           *)
(* collection, one of its features or a bare geometry; as target a point,  *)
(* a line or a polygon; k from -1 on.                                      *)

KnnTargets == {KnnTarget, KnnLine, Square}

InitKnnArgs ==
    /\ \E n \in 0..MaxArgPts : \E c \in [1..n -> KnnCoords] : \E lead \in BOOLEAN :
           points_fc \in FeatureOrFc(KnnCollection(c, lead))
    /\ call = NoCall
    /\ result = NoResult
    /\ pc = "idle"
    /\ props_obj = <<>>

NextKnnArgs ==
    \/ \E t \in KnnTargets, k \in -1..MaxK, use_index \in BOOLEAN :
           KnnPoints(t, k, use_index)
    \/ Release

SpecKnnArgs == InitKnnArgs /\ [][NextKnnArgs]_vars

----------------------------------------------------------------------------
(* The two analysis modules and what a caller gets from them by name.      *)

(* the functions geotoolkit/analysis.py defines *)
GeotoolkitAnalysisDefs ==
    {"buffer", "clip", "nearest", "get_area", "get_length", "is_contained"}

(* the functions analysis.py defines *)
AnalysisDefs ==
    GeotoolkitAnalysisDefs \cup {"nearest_optimized", "get_centroid", "get_envelope"}

ModuleDefs(module) ==
    IF module = "geotoolkit.analysis" THEN GeotoolkitAnalysisDefs ELSE AnalysisDefs

(* mutant: the geometry is its own envelope *)
envelope_self(s) == s

(* geometry.envelope: the rectangle of the bounds, which is a point for a  *)
(* point and a segment for a horizontal or vertical segment                *)
envelope(s) ==
    LET b == bounds(s)
    IN IF b[1] = b[3] /\ b[2] = b[4]
       THEN [geom_type |-> "Point", coords |-> <<<<b[1], b[2]>>>>]
       ELSE IF b[1] = b[3] \/ b[2] = b[4]
       THEN [geom_type |-> "LineString", coords |-> <<<<b[1], b[2]>>, <<b[3], b[4]>>>>]
       ELSE BoxShape(b)

(* get_envelope *)
get_envelope(geometry) == mapping(envelope(shape(geometry)))

(* from <module> import <name>; <name>(geometry): the import fails when    *)
(* the module does not define the name                                     *)
import_and_call(module, name, geometry) ==
    IF name \notin ModuleDefs(module) THEN Raise("ImportError")
    ELSE IF name = "get_envelope" THEN Return(get_envelope(geometry))
    ELSE Raise("NotModelled")

Grid == {<<x, y>> : x \in 0..MaxCoord, y \in 0..MaxCoord}

(* points, segments, triangles and axis-parallel rectangles on the grid,   *)
(* and the square of the tests                                             *)
GridGeoms ==
    {PointGeom(a) : a \in Grid}
    \cup {LineStringGeom(<<p[1], p[2]>>) : p \in {q \in Grid \X Grid : q[1] # q[2]}}
    \cup {PolygonGeom(<<t[1], t[2], t[3], t[1]>>) :
             t \in {u \in Grid \X Grid \X Grid : Cross(u[1], u[2], u[3]) # 0}}
    \cup {mapping(BoxShape(<<p[1][1], p[1][2], p[2][1], p[2][2]>>)) :
             p \in {q \in Grid \X Grid : q[2][1] > q[1][1] /\ q[2][2] > q[1][2]}}
    \cup {Square}

ImportAndCall(module, name, geometry) ==
    /\ pc = "idle"
    /\ call' = [op |-> name, module |-> module, geometry |-> geometry]
    /\ result' = import_and_call(module, name, geometry)
    /\ pc' = "done"
    /\ UNCHANGED <<points_fc, props_obj>>

InitAnalysis ==
    /\ points_fc = FeatureCollection(<<>>)
    /\ call = NoCall
    /\ result = NoResult
    /\ pc = "idle"
    /\ props_obj = <<>>

NextAnalysis ==
    \/ \E module \in {"geotoolkit.analysis", "analysis"},
          name \in {"get_bbox", "get_envelope"}, g \in GridGeoms :
           ImportAndCall(module, name, g)
    \/ Release

SpecAnalysis == InitAnalysis /\ [][NextAnalysis]_vars

----------------------------------------------------------------------------
(* demo.py: the interactive console, followed from its menu loop on, the   *)
(* preparation stage done.  points_fc is fc_m, the projected sample data;  *)
(* call is the frame of the script: the files of out/ that some task       *)
(* reads, the input line and the variables of the loop; result is the      *)
(* outcome of the task run last.  A text typed at a prompt is a sequence   *)
(* of characters; in a menu line a word, that is a maximal run of          *)
(* characters other than blank and comma, is one element.                  *)

(* str.strip() *)
RECURSIVE lstrip(_)
lstrip(s) == IF s # <<>> /\ Head(s) = " " THEN lstrip(Tail(s)) ELSE s

RECURSIVE rstrip(_)
rstrip(s) ==
    IF s # <<>> /\ s[Len(s)] = " " THEN rstrip(SubSeq(s, 1, Len(s) - 1)) ELSE s

strip(s) == rstrip(lstrip(s))

(* str.replace(old, new), old one element of the text *)
replace(s, old, new) == [i \in 1..Len(s) |-> IF s[i] = old THEN new ELSE s[i]]

(* str.split(): the words between blanks *)
split(s) == SelectSeq(s, LAMBDA c : c # " ")

(* str.lower() on the letters typed here *)
lower(s) == [i \in 1..Len(s) |-> IF s[i] = "N" THEN "n" ELSE IF s[i] = "Y" THEN "y" ELSE s[i]]

Digits == <<"0", "1", "2", "3", "4", "5", "6", "7", "8", "9">>

(* str.isdigit() *)
isdigit(s) == s # <<>> /\ \A i \in 1..Len(s) : s[i] \in Range(Digits)

(* int(s), float(s) of a text of digits *)
RECURSIVE int(_)
int(s) ==
    IF s = <<>> THEN 0
    ELSE 10 * int(SubSeq(s, 1, Len(s) - 1))
         + (CHOOSE d \in 0..9 : Digits[d + 1] = s[Len(s)])

(* the three characters that the first replace of the menu line looks for *)
WideComma == "U+00EF U+00BC U+0152"

(* the files of out/ that a task reads; <<>> is a file that does not exist *)
path_clip == "out/clipped_features.geojson"
path_buf == "out/buffer_500m.geojson"
path_geo == "out/geo_features.geojson"
path_sampled == "out/sampled_points.geojson"
Paths == {path_clip, path_buf, path_geo, path_sampled}

NoFiles == [p \in Paths |-> <<>>]

(* os.path.exists *)
exists(files, path) == files[path] # <<>>

(* json.load of the open file: json.dump wrote numbers, strings, lists and *)
(* dicts, which come back as they were                                     *)
json_load(files, path) == files[path][1]

(* write_geojson *)
write_geojson(files, obj, path) == [files EXCEPT ![path] = <<obj>>]

(* poly and pt of the preparation stage: the geometry of the first Polygon *)
(* and of the first Point of fc_m                                          *)
poly_of(fc_m) ==
    SelectSeq(fc_m.features, LAMBDA f : f.geometry.type = "Polygon")[1].geometry

pt_of(fc_m) ==
    SelectSeq(fc_m.features, LAMBDA f : f.geometry.type = "Point")[1].geometry

(* [f for f in fc["features"] if f["geometry"]["type"] == "Point"] *)
point_features(feats) == SelectSeq(feats, LAMBDA f : f.geometry.type = "Point")

(* is_contained *)
is_contained(container_geom, content_geom) ==
    contains(shape(container_geom), shape(content_geom))

(* what a task did: the files after it and its outcome *)
Did(files, out) == [files |-> files, out |-> out]

(* a task that returned: value holds what it printed, plotted or exported *)
Done(files, task, v) == Did(files, Return([task |-> task] @@ v))

(* what may be typed at the prompts of task_buffer and task_knn *)
TypedDists == {<<>>, <<" ", "2", "0">>, <<"-", "5">>}
TypedKs == {<<>>, <<"0">>, <<"2">>}
TypedIdx == {<<>>, <<"N">>}

(* task_buffer: typed is the answer to its prompt *)
task_buffer(fc_m, files) ==
    {LET user_dist == strip(typed)
         dist == IF isdigit(user_dist) THEN int(user_dist) ELSE 500
         buf == buffer(poly_of(fc_m), dist)
     IN Done(write_geojson(files, buf, path_buf), "task_buffer", [buf |-> buf])
     : typed \in TypedDists}

(* task_clip *)
task_clip(fc_m, files) ==
    LET clipper == buffer(poly_of(fc_m), 500)
        clipped == clip(fc_m, clipper).value
    IN {Done(write_geojson(files, clipped, path_clip), "task_clip",
             [clipped |-> clipped])}

(* task_nearest *)
task_nearest(fc_m, files) ==
    {Done(files, "task_nearest", [dist |-> nearest(pt_of(fc_m), poly_of(fc_m))[1]])}

(* task_analysis; the perimeter it prints is left out *)
task_analysis(fc_m, files) ==
    LET temp_buf == buffer(poly_of(fc_m), 500)
    IN {Done(files, "task_analysis",
             [is_inside |-> is_contained(temp_buf, pt_of(fc_m))])}

(* task_optimized_search; the times it prints are left out *)
task_optimized_search(fc_m, files) ==
    {IF o.status = "raise" THEN Did(files, o)
     ELSE Done(files, "task_optimized_search", [dist |-> o.value[1]])
     : o \in nearest_optimized(pt_of(fc_m), fc_m)}

(* shape(geometry).centroid of a rectangle with even sides: its centre *)
get_centroid(geometry) ==
    LET b == bounds(shape(geometry))
    IN PointGeom(<<(b[1] + b[3]) \div 2, (b[2] + b[4]) \div 2>>)

RECURSIVE geo_features(_)
geo_features(polygons) ==
    IF polygons = <<>> THEN <<>>
    ELSE LET geom == Head(polygons).geometry
         IN <<Feature(get_centroid(geom), [type |-> "Centroid"]),
              Feature(get_envelope(geom), [type |-> "Envelope"])>>
            \o geo_features(Tail(polygons))

(* task_geo_features *)
task_geo_features(fc_m, files) ==
    LET polygons == SelectSeq(fc_m.features, LAMBDA f : f.geometry.type = "Polygon")
        fc == FeatureCollection(geo_features(polygons))
    IN {Done(write_geojson(files, fc, path_geo), "task_geo_features",
             [geo_features |-> fc])}

(* the first layer of task_viz, the base map: the files it opens, the      *)
(* features it adds, its part of the title and has_processed_data          *)
Layer(opened, feats, title, processed) ==
    [opened |-> opened, feats |-> feats, title |-> title, processed |-> processed]

(* mutant: the buffer file is looked for before the clip file *)
viz_base_buffer_first(fc_m, files) ==
    IF exists(files, path_buf)
    THEN Layer(<<path_buf>>,
               <<Feature(json_load(files, path_buf), [type |-> "Buffer"])>>,
               <<"Buffer">>, TRUE)
    ELSE IF exists(files, path_clip)
    THEN Layer(<<path_clip>>, json_load(files, path_clip).features,
               <<"Clipped">>, TRUE)
    ELSE Layer(<<>>, fc_m.features, <<"Original Data">>, FALSE)

viz_base(fc_m, files) ==
    IF exists(files, path_clip)
    THEN LET data == json_load(files, path_clip)
         IN Layer(<<path_clip>>,
                  IF "features" \in DOMAIN data THEN data.features ELSE <<>>,
                  <<"Clipped">>, TRUE)
    ELSE IF exists(files, path_buf)
    THEN LET data == json_load(files, path_buf)
         IN Layer(<<path_buf>>,
                  IF "features" \in DOMAIN data THEN data.features
                  ELSE IF "type" \in DOMAIN data /\ data.type = "Polygon"
                  THEN <<Feature(data, [type |-> "Buffer"])>>
                  ELSE <<>>,
                  <<"Buffer">>, TRUE)
    ELSE Layer(<<>>, fc_m.features, <<"Original Data">>, FALSE)

(* the second layer: the centroids and envelopes of task_geo_features *)
viz_geo(files) ==
    IF exists(files, path_geo)
    THEN LET geo_data == json_load(files, path_geo)
         IN Layer(<<path_geo>>,
                  IF "features" \in DOMAIN geo_data THEN geo_data.features ELSE <<>>,
                  <<"+ Geometry">>, FALSE)
    ELSE Layer(<<>>, <<>>, <<>>, FALSE)

(* the third layer: the sampled points, each marked for the plot, or the   *)
(* original points when a processed base map is shown                      *)
viz_points(fc_m, files, has_processed_data) ==
    IF exists(files, path_sampled)
    THEN LET data == json_load(files, path_sampled)
         IN Layer(<<path_sampled>>,
                  IF "features" \in DOMAIN data
                  THEN [j \in 1..Len(data.features) |->
                           [data.features[j] EXCEPT !.properties =
                               ("_viz_type" :> "SampledPoint") @@ @]]
                  ELSE <<>>,
                  <<"+ Raster Values">>, FALSE)
    ELSE IF has_processed_data
    THEN Layer(<<>>, point_features(fc_m.features), <<>>, FALSE)
    ELSE Layer(<<>>, <<>>, <<>>, FALSE)

(* task_viz: value holds the collection and the title given to             *)
(* plot_features, the base map in it and the files opened                  *)
task_viz(fc_m, files) ==
    LET base == viz_base(fc_m, files)
        geo == viz_geo(files)
        points == viz_points(fc_m, files, base.processed)
        context == IF base.processed
                   THEN <<Feature(poly_of(fc_m), [type |-> "Original"])>>
                   ELSE <<>>
    IN {Done(files, "task_viz",
             [base |-> base.feats,
              opened |-> base.opened \o geo.opened \o points.opened,
              viz_features |-> base.feats \o geo.feats \o points.feats \o context,
              title_parts |-> base.title \o geo.title \o points.title])}

(* task_report, step 1: the features to analyse and the name of their      *)
(* source                                                                  *)
report_source(fc_m, files) ==
    LET linked ==
            IF exists(files, path_sampled)
            THEN LET data == json_load(files, path_sampled)
                 IN [target_points |-> IF "features" \in DOMAIN data
                                       THEN data.features ELSE <<>>,
                     data_source_desc |-> "Raster Sampled"]
            ELSE IF exists(files, path_clip)
            THEN LET clip_data == json_load(files, path_clip)
                 IN [target_points |-> IF "features" \in DOMAIN clip_data
                                       THEN point_features(clip_data.features)
                                       ELSE <<>>,
                     data_source_desc |-> "Clipped Data (Task 2)"]
            ELSE [target_points |-> <<>>, data_source_desc |-> ""]
    IN IF linked.target_points = <<>>
       THEN [target_points |-> point_features(fc_m.features),
             data_source_desc |-> "Original Data (Raw)"]
       ELSE linked

(* task_report, step 2: the polygon that "inside the buffer" refers to *)
report_reference(fc_m, files) ==
    LET read ==
            IF exists(files, path_buf)
            THEN LET buf_data == json_load(files, path_buf)
                 IN IF "type" \in DOMAIN buf_data /\ buf_data.type = "Polygon"
                    THEN <<buf_data>>
                    ELSE IF "features" \in DOMAIN buf_data
                    THEN <<buf_data.features[1].geometry>>
                    ELSE <<>>
            ELSE <<>>
    IN IF read = <<>>
       THEN [reference_geom |-> buffer(poly_of(fc_m), 500),
             ref_source_desc |-> "Default 500m"]
       ELSE [reference_geom |-> read[1], ref_source_desc |-> "File Read (Task 1)"]

(* task_report, step 3: the row of the i-th feature.  The distance is      *)
(* squared and not rounded; the column of in_buf, whose title holds        *)
(* ref_source_desc, is two fields.                                         *)
report_row(i, pt_feature, fc_m, src, ref) ==
    LET geom == pt_feature.geometry
        d == nearest(geom, poly_of(fc_m))[1]
        in_buf == is_contained(ref.reference_geom, geom)
        props == pt_feature.properties
        p_name == IF "name" \in DOMAIN props THEN props.name ELSE <<"Point_", i>>
        row == [ID |-> i, Name |-> p_name, Data_Source |-> src.data_source_desc,
                Distance_to_Polygon |-> d,
                Inside_Buffer |-> IF in_buf THEN "Yes" ELSE "No",
                Reference |-> ref.ref_source_desc]
    IN IF "raster_value" \in DOMAIN props
       THEN ("Raster_Value" :> props.raster_value) @@ row
       ELSE row

(* task_report: value holds the rows given to write_csv and the features   *)
(* they were made of                                                       *)
task_report(fc_m, files) ==
    LET src == report_source(fc_m, files)
        ref == report_reference(fc_m, files)
        report_data == [i \in 1..Len(src.target_points) |->
                           report_row(i, src.target_points[i], fc_m, src, ref)]
    IN {Done(files, "task_report",
             [target_points |-> src.target_points, report_data |-> report_data])}

(* read_geojson("data/generated_points.geojson"): three points, one in the *)
(* polygon, one in its buffer, one away from both                          *)
GeneratedPoints ==
    FeatureCollection(<<Feature(PointGeom(<<4, 6>>), [id |-> 1]),
                        Feature(PointGeom(<<200, 10>>), [id |-> 2]),
                        Feature(PointGeom(<<900, 900>>), [id |-> 3])>>)

(* task_batch; the files it writes are read by no task *)
task_batch(fc_m, files) ==
    LET pts_m == GeneratedPoints
        buf_geom == buffer(poly_of(fc_m), 500)
        tagged_base == tag_points_within(pts_m, buf_geom, "inside", FALSE, "contains")
        inside_base == filter_points_within(pts_m, buf_geom, FALSE, "covers")
        tagged_idx == tag_points_within(pts_m, buf_geom, "inside", TRUE, "contains")
        inside_idx == filter_points_within(pts_m, buf_geom, TRUE, "covers")
    IN {IF tagged_base.status = "raise" THEN Did(files, tagged_base)
        ELSE IF inside_base.status = "raise" THEN Did(files, inside_base)
        ELSE IF tagged_idx.status = "raise" THEN Did(files, tagged_idx)
        ELSE IF inside_idx.status = "raise" THEN Did(files, inside_idx)
        ELSE Done(files, "task_batch",
                  [tagged |-> tagged_idx.value, inside |-> inside_idx.value])}

(* task_geometry_summary: its first statement calls get_bbox, a name that  *)
(* no module of the repository defines                                     *)
task_geometry_summary(fc_m, files) ==
    {Did(files, Raise("NameError"))}

(* task_knn: typed_k and typed_idx are the answers to its two prompts; the *)
(* file it writes is read by no task                                       *)
knn_typed(fc_m, typed_k, typed_idx) ==
    LET user_k == strip(typed_k)
        k == IF isdigit(user_k) THEN int(user_k) ELSE 10
        use_idx_input == lower(strip(typed_idx))
        use_index == use_idx_input # <<"n">>
    IN knn_points(GeneratedPoints, pt_of(fc_m), k, use_index)

task_knn(fc_m, files) ==
    {IF o.status = "raise" THEN Did(files, o)
     ELSE Done(files, "task_knn", [topk_fc |-> o.value])
     : o \in UNION {knn_typed(fc_m, typed_k, typed_idx)
                     : typed_k \in TypedKs, typed_idx \in TypedIdx}}

(* src.sample at one coordinate: the value of the raster there, a function *)
(* of the place                                                            *)
src_sample(xy) == xy[1] + xy[2]

(* sample_raster_at_points, the raster open *)
sample_raster_at_points(fc) ==
    LET valid_feats == point_features(fc.features)
    IN FeatureCollection(
           [i \in 1..Len(valid_feats) |->
               [valid_feats[i] EXCEPT !.properties =
                   ("raster_value" :> src_sample(valid_feats[i].geometry.coordinates[1]))
                   @@ @]])

(* task_raster_sampling *)
task_raster_sampling(fc_m, files, HAS_RASTERIO) ==
    IF ~HAS_RASTERIO
    THEN {Done(files, "task_raster_sampling", [error |-> "rasterio"])}
    ELSE LET sampled_fc == sample_raster_at_points(fc_m)
         IN {Done(write_geojson(files, sampled_fc, path_sampled),
                  "task_raster_sampling", [sampled_fc |-> sampled_fc])}

MENU ==
    ("1" :> "task_buffer") @@ ("2" :> "task_clip") @@ ("3" :> "task_nearest")
    @@ ("4" :> "task_analysis") @@ ("5" :> "task_viz") @@ ("6" :> "task_report")
    @@ ("7" :> "task_optimized_search") @@ ("8" :> "task_geo_features")
    @@ ("9" :> "task_batch") @@ ("10" :> "task_geometry_summary")
    @@ ("11" :> "task_knn") @@ ("12" :> "task_raster_sampling")

(* MENU[key][1](): what the task may do *)
run_task(task, fc_m, frame) ==
    CASE task = "task_buffer" -> task_buffer(fc_m, frame.files)
      [] task = "task_clip" -> task_clip(fc_m, frame.files)
      [] task = "task_nearest" -> task_nearest(fc_m, frame.files)
      [] task = "task_analysis" -> task_analysis(fc_m, frame.files)
      [] task = "task_viz" -> task_viz(fc_m, frame.files)
      [] task = "task_report" -> task_report(fc_m, frame.files)
      [] task = "task_optimized_search" -> task_optimized_search(fc_m, frame.files)
      [] task = "task_geo_features" -> task_geo_features(fc_m, frame.files)
      [] task = "task_batch" -> task_batch(fc_m, frame.files)
      [] task = "task_geometry_summary" -> task_geometry_summary(fc_m, frame.files)
      [] task = "task_knn" -> task_knn(fc_m, frame.files)
      [] task = "task_raster_sampling" ->
             task_raster_sampling(fc_m, frame.files, frame.HAS_RASTERIO)

(* the inputs that end the loop *)
ExitWords == {"0", "q", "exit", "quit"}

(* mutant: the handler is "except NameError" *)
OnlyNameError == {"NameError"}

(* the classes that "except Exception" catches, among those raised here *)
Exception == {"ValueError", "TypeError", "NameError"}

(* the frame of the script at the head of the loop.  ran is the history of *)
(* the for loop: the keys whose task was called for the present input,     *)
(* each with the status of its outcome.                                    *)
Frame(HAS_RASTERIO, files) ==
    [op |-> "demo", HAS_RASTERIO |-> HAS_RASTERIO, files |-> files,
     user_input |-> <<>>, selection_keys |-> <<>>, valid_choice |-> FALSE,
     ran |-> <<>>]

(* the menu is shown and a line is read: break, continue or the selection *)
ReadSelection(line) ==
    /\ pc = "menu"
    /\ LET user_input == strip(line)
       IN IF user_input \in {<<w>> : w \in ExitWords}
          THEN /\ call' = [call EXCEPT !.user_input = user_input]
               /\ pc' = "exited"
          ELSE IF user_input = <<>>
          THEN /\ call' = [call EXCEPT !.user_input = user_input]
               /\ pc' = "menu"
          ELSE /\ call' = [call EXCEPT
                              !.user_input = user_input,
                              !.selection_keys =
                                  split(replace(replace(user_input, WideComma, ","),
                                                ",", " ")),
                              !.valid_choice = FALSE,
                              !.ran = <<>>]
               /\ pc' = "for"
    /\ UNCHANGED <<points_fc, result, props_obj>>

(* one turn of the for loop: the task of the key is called and what it     *)
(* raises is caught, or the key is no key of MENU                          *)
RunKey ==
    /\ pc = "for"
    /\ call.selection_keys # <<>>
    /\ LET key == Head(call.selection_keys)
       IN IF key \in DOMAIN MENU
          THEN \E did \in run_task(MENU[key], points_fc, call) :
                   /\ result' = did.out
                   /\ call' = [call EXCEPT
                                  !.files = did.files,
                                  !.valid_choice = TRUE,
                                  !.selection_keys = Tail(@),
                                  !.ran = Append(@, <<key, did.out.status>>)]
                   /\ pc' = IF did.out.status = "raise" /\ did.out.exc \notin Exception
                            THEN "traceback" ELSE "for"
          ELSE /\ call' = [call EXCEPT !.selection_keys = Tail(@)]
               /\ pc' = "for"
               /\ UNCHANGED result
    /\ UNCHANGED <<points_fc, props_obj>>

(* the for loop is over: the pause when a task was called *)
EndSelection ==
    /\ pc = "for"
    /\ call.selection_keys = <<>>
    /\ pc' = IF call.valid_choice THEN "pause" ELSE "menu"
    /\ UNCHANGED <<points_fc, call, result, props_obj>>

(* [Enter] at "Task completed, press [Enter] to return to menu..." *)
PressEnter ==
    /\ pc = "pause"
    /\ pc' = "menu"
    /\ UNCHANGED <<points_fc, call, result, props_obj>>

NextDemo(Lines) ==
    \/ \E line \in Lines : ReadSelection(line)
    \/ RunKey
    \/ EndSelection
    \/ PressEnter

(* fc_m: the square of the tests, which is poly, and after it points in    *)
(* the square, in its 500 m buffer and beyond the buffer                   *)
DemoCoords == {<<5, 5>>, <<300, 0>>, <<2000, 2000>>}

DemoCollection(c) ==
    FeatureCollection(
        <<Feature(Square, [id |-> 1, name |-> <<"Polygon", 1>>])>>
        \o [j \in 1..Len(c) |->
               Feature(PointGeom(c[j]), [id |-> j + 1, name |-> <<"Point", j>>])])

(* Sequences of tasks: every line is one key of the menu, or 0 *)
TaskLines == {<<key>> : key \in DOMAIN MENU} \cup {<<"0">>}

InitTasks ==
    /\ \E n \in 1..MaxDemoPts : \E c \in [1..n -> DemoCoords] :
           points_fc = DemoCollection(c)
    /\ \E HAS_RASTERIO \in BOOLEAN : call = Frame(HAS_RASTERIO, NoFiles)
    /\ result = NoResult
    /\ pc = "menu"
    /\ props_obj = <<>>

NextTasks == NextDemo(TaskLines)

SpecTasks == InitTasks /\ [][NextTasks]_vars

(* Menu lines: up to MaxLine elements, each a blank, a comma or a word,    *)
(* no word next to a word                                                  *)
MenuWords == ExitWords \cup {"3", "11"}
MenuChars == {" ", ","} \cup MenuWords

MenuLines ==
    UNION {{line \in [1..n -> MenuChars] :
               \A i \in 1..(n - 1) : ~(line[i] \in MenuWords /\ line[i + 1] \in MenuWords)}
           : n \in 0..MaxLine}

InitMenu ==
    /\ points_fc = DemoCollection(<<<<5, 5>>>>)
    /\ call = Frame(TRUE, NoFiles)
    /\ result = NoResult
    /\ pc = "menu"
    /\ props_obj = <<>>

NextMenu == NextDemo(MenuLines)

SpecMenu == InitMenu /\ [][NextMenu]_vars

----------------------------------------------------------------------------
(* Properties *)

KnnDone == pc = "done" /\ call.op = "knn_points"
TagDone == pc = "done" /\ call.op = "tag_points_within"
FilterDone == pc = "done" /\ call.op = "filter_points_within"
NearestDone == pc = "done" /\ call.op = "nearest_optimized"
NearestPairDone == pc = "done" /\ call.op = "nearest"
BufferDone == pc = "done" /\ call.op = "buffer"
ClipDone == pc = "done" /\ call.op = "clip"
ToEpsgDone == pc = "done" /\ call.op = "to_epsg"
Returned == result.status = "return"

Ids(feats) == [j \in 1..Len(feats) |-> feats[j].properties.id]

Tags(feats, prop) == [j \in 1..Len(feats) |-> feats[j].properties[prop]]

NumPoints(fc) ==
    Cardinality({j \in 1..Len(fc.features) : fc.features[j].geometry.type = "Point"})

(* distance of a returned feature's point to the target of the call *)
DistToTarget(ft) == distance(shape(call.target_point_geom), shape(ft.geometry))

(* where the point <<x, y>> lies with respect to Square and to Triangle,   *)
(* from the inequalities that define the two regions                       *)
Region(polygon_geom, xy) ==
    LET x == xy[1]
        y == xy[2]
        top == IF polygon_geom = Square THEN y < 10 ELSE x + y < 10
        topc == IF polygon_geom = Square THEN y <= 10 ELSE x + y <= 10
    IN IF x > 0 /\ y > 0 /\ x < 10 /\ top THEN "interior"
       ELSE IF x >= 0 /\ y >= 0 /\ x <= 10 /\ topc THEN "boundary"
       ELSE "exterior"

(* C1: knn_points with use_index=True returns the same features in the     *)
(* same rank order as knn_points with use_index=False on the same inputs.  *)
C1_IndexedKnnEqualsBruteForce ==
    (KnnDone /\ call.use_index /\ Returned) =>
        \A r \in knn_points(points_fc, call.target_point_geom, call.k, FALSE) :
            /\ r.status = "return"
            /\ Ids(result.value.features) = Ids(r.value.features)

(* C2: tag_points_within gives every Point feature the same tag, in the    *)
(* same order, with and without the index, for both modes.                 *)
C2_IndexedTagsEqualBaseline ==
    (TagDone /\ Returned) =>
        LET other == tag_points_within(points_fc, call.polygon_geom, call.prop,
                                       ~call.use_index, call.mode)
        IN /\ other.status = "return"
           /\ Tags(result.value.features, call.prop)
                  = Tags(other.value.features, call.prop)

C2_Witness ==
    /\ TagDone /\ Returned /\ call.use_index /\ call.polygon_geom = Triangle
    /\ \E j, l \in 1..Len(result.value.features) :
           /\ result.value.features[j].properties[call.prop]
           /\ ~result.value.features[l].properties[call.prop]
           /\ result.value.features[l].geometry = PointGeom(<<8, 8>>)

(* C3: the distance nearest_optimized returns is the least of the          *)
(* distances nearest(q, g) over the features g of the collection, and the  *)
(* geometry it returns is a member of the collection at that distance.     *)
C3_NearestOptimizedIsMinimum ==
    (NearestDone /\ Returned) =>
        LET feats == points_fc.features
            d(j) == nearest(call.search_geom, feats[j].geometry)[1]
        IN /\ \A j \in 1..Len(feats) : result.value[1] <= d(j)
           /\ \E j \in 1..Len(feats) :
                  /\ feats[j].geometry = result.value[2]
                  /\ d(j) = result.value[1]

C3_Witness ==
    /\ NearestDone /\ Returned
    /\ Len(points_fc.features) >= 2
    /\ nearest(call.search_geom, points_fc.features[1].geometry)[1] > result.value[1]
    /\ result.value[1] > 0

(* C4: on both paths a point on the polygon's boundary is tagged false     *)
(* under 'contains' and true under 'covers'; a point strictly inside is    *)
(* tagged true and a point strictly outside false under both modes.        *)
C4_BoundarySemantics ==
    (TagDone /\ Returned) =>
        \A j \in 1..Len(result.value.features) :
            LET ft == result.value.features[j]
                where == Region(call.polygon_geom, ft.geometry.coordinates[1])
            IN ft.properties[call.prop] =
                   (IF where = "boundary" THEN call.mode = "covers"
                                          ELSE where = "interior")

C4_Witness ==
    /\ TagDone /\ Returned /\ call.use_index /\ call.mode = "contains"
    /\ \E j \in 1..Len(result.value.features) :
           /\ Region(call.polygon_geom,
                     result.value.features[j].geometry.coordinates[1]) = "boundary"
           /\ ~result.value.features[j].properties[call.prop]

(* C5: with n Point features in the input and k >= 1, knn_points returns   *)
(* exactly min(k, n) features, on both paths.                              *)
C5_KnnReturnsMinKN ==
    (KnnDone /\ call.k >= 1) =>
        /\ Returned
        /\ Len(result.value.features) = Min(call.k, NumPoints(points_fc))

C5_Witness ==
    /\ KnnDone /\ Returned /\ call.use_index
    /\ NumPoints(points_fc) >= 1
    /\ call.k > NumPoints(points_fc)
    /\ Len(result.value.features) = NumPoints(points_fc)

(* C6: the features knn_points returns are in non-decreasing order of      *)
(* their distance to the target, the i-th carries knn_rank = i, and its    *)
(* distance_m is the distance between the target and its point.            *)
C6_KnnSortedAndRanked ==
    (KnnDone /\ Returned) =>
        LET feats == result.value.features
        IN \A j \in 1..Len(feats) :
               /\ feats[j].properties.knn_rank = j
               /\ feats[j].properties.distance_m = DistToTarget(feats[j])
               /\ j < Len(feats) => DistToTarget(feats[j]) <= DistToTarget(feats[j + 1])

C6_Witness ==
    /\ KnnDone /\ Returned /\ call.use_index
    /\ Len(result.value.features) >= 2
    /\ result.value.features[1].properties.distance_m
           < result.value.features[2].properties.distance_m
    /\ result.value.features[1].properties.id > result.value.features[2].properties.id

(* C7: on both paths, two returned points at equal distance from the       *)
(* target appear in the order of their positions in the input collection.  *)
C7_TiesInInputOrder ==
    (KnnDone /\ Returned) =>
        LET feats == result.value.features
        IN \A j, l \in 1..Len(feats) :
               (j < l /\ feats[j].properties.distance_m = feats[l].properties.distance_m)
                   => feats[j].properties.id < feats[l].properties.id

(* C8: knn_points called with k <= 0 raises ValueError and returns no      *)
(* result, whatever the collection, the target and use_index are.          *)
C8_NonPositiveKRaises ==
    (KnnDone /\ call.k <= 0) => (result.status = "raise" /\ result.exc = "ValueError")

C8_Witness ==
    /\ KnnDone /\ call.k = 0 /\ call.use_index
    /\ NumPoints(points_fc) >= 1
    /\ result.status = "raise"

(* C9: tag_points_within and filter_points_within called with a mode       *)
(* other than 'contains' and 'covers' raise ValueError on both paths and   *)
(* return no collection.                                                   *)
C9_UnknownModeRaises ==
    (pc = "done" /\ call.op \in {"tag_points_within", "filter_points_within"}
                 /\ call.mode \notin {"contains", "covers"})
        => result = Raise("ValueError")

C9_Witness ==
    /\ FilterDone /\ call.mode = "within" /\ call.use_index
    /\ NumPoints(points_fc) >= 1
    /\ result.status = "raise"

(* C10: filter_points_within returns exactly the Point features that       *)
(* tag_points_within with the same arguments tags true, in input order.    *)
C10_FilterKeepsTaggedTrue ==
    (FilterDone /\ Returned) =>
        LET tagged == tag_points_within(points_fc, call.polygon_geom, "inside",
                                        call.use_index, call.mode)
            kept == SelectSeq(tagged.value.features, LAMBDA ft : ft.properties.inside)
            feats == result.value.features
        IN /\ Len(feats) = Len(kept)
           /\ \A j \in 1..Len(feats) :
                  /\ feats[j].geometry = kept[j].geometry
                  /\ feats[j].properties.id = kept[j].properties.id

C10_Witness ==
    /\ FilterDone /\ Returned
    /\ Len(result.value.features) >= 1
    /\ Len(result.value.features) < NumPoints(points_fc)
    /\ \E j \in 1..Len(points_fc.features) :
           /\ is_inside(points_fc.features[j])
           /\ points_fc.features[j].properties.id \notin Range(Ids(result.value.features))

(* the input feature a returned feature was made from: the one of its id *)
InputOf(ft) == points_fc.features[ft.properties.id]

(* C11: every feature filter_points_within returns has the property        *)
(* mapping of the input feature it was made from: the same keys with the   *)
(* same values, whatever properties the input carries.                     *)
C11_FilterPreservesProperties ==
    (FilterDone /\ Returned) =>
        \A j \in 1..Len(result.value.features) :
            LET ft == result.value.features[j]
            IN /\ DOMAIN ft.properties = DOMAIN InputOf(ft).properties
               /\ \A key \in DOMAIN ft.properties :
                      ft.properties[key] = InputOf(ft).properties[key]

(* C12: no call of tag_points_within, filter_points_within or knn_points   *)
(* (either path), and no write of the caller to a returned feature,        *)
(* changes the caller's collection: its features, their geometries and     *)
(* their property mappings stay as they were.                              *)
C12_InputUnchanged == [][points_fc' = points_fc]_vars

C12_Witness ==
    /\ pc = "done" /\ Returned
    /\ \E j \in 1..Len(result.value.features) :
           LET ft == result.value.features[j]
           IN /\ "_viz_type" \in DOMAIN ft.properties
              /\ DOMAIN ft.properties \cap {"inside", "knn_rank"} # {}
              /\ DOMAIN InputOf(ft).properties \cap {"_viz_type", "inside", "knn_rank"} = {}

(* C13: the property mapping of every feature clip and to_epsg return is   *)
(* a copy of the input feature's mapping, not the same dict: no returned   *)
(* feature refers to a dict of the caller's collection, so that a write to *)
(* a returned feature's property cannot change the input feature.          *)
C13_OutputPropertiesAreCopies ==
    ((ClipDone \/ ToEpsgDone) /\ Returned) =>
        \A j \in 1..Len(props_obj) : props_obj[j][1] = "new"

(* C14: clip returns a FeatureCollection whatever its first argument is:   *)
(* a FeatureCollection, a Feature or a raw geometry.                       *)
C14_ClipReturnsFeatureCollection ==
    ClipDone => (Returned /\ result.value.type = "FeatureCollection")

(* the point <<x, y>> lies on the geometry g: it is the point g, or it is  *)
(* within the x and y ranges of the rectangle g                            *)
OnGeom(g, xy) ==
    IF g.type = "Point" THEN xy = g.coordinates[1]
    ELSE /\ \E j \in DOMAIN g.coordinates : g.coordinates[j][1] <= xy[1]
         /\ \E j \in DOMAIN g.coordinates : g.coordinates[j][1] >= xy[1]
         /\ \E j \in DOMAIN g.coordinates : g.coordinates[j][2] <= xy[2]
         /\ \E j \in DOMAIN g.coordinates : g.coordinates[j][2] >= xy[2]

(* C15: nearest(A, B) returns a distance >= 0 with one point on A and one  *)
(* on B that are that far apart; the distance is 0 exactly when A and B    *)
(* intersect; the point (15, 5) and the square (0,0)-(10,10) are 5 apart   *)
(* (distances are carried squared).                                        *)
C15_NearestDistance ==
    NearestPairDone =>
        LET d == result.value[1]
            pa == result.value[2].coordinates[1]
            pb == result.value[3].coordinates[1]
        IN /\ Returned
           /\ d >= 0
           /\ OnGeom(call.a_geom, pa)
           /\ OnGeom(call.b_geom, pb)
           /\ d = Sq(pa[1] - pb[1]) + Sq(pa[2] - pb[2])
           /\ (d = 0) <=> OnGeom(call.b_geom, call.a_geom.coordinates[1])
           /\ (call.a_geom = PointGeom(<<15, 5>>) /\ call.b_geom = Square) => d = Sq(5)

C15_Witness ==
    /\ NearestPairDone
    /\ call.a_geom = PointGeom(<<15, 5>>) /\ call.b_geom = Square
    /\ result.value = <<25, PointGeom(<<15, 5>>), PointGeom(<<10, 5>>)>>

(* the radii InitialRadius, 2 * InitialRadius, 4 * InitialRadius, ... *)
RECURSIVE Doubling(_, _)
Doubling(first, n) ==
    IF n = 0 THEN <<>> ELSE <<first>> \o Doubling(2 * first, n - 1)

(* C16: the expanding-radius loop of the indexed k-NN search ends after at *)
(* most 8 range queries, with radii 50, 100, ..., 6400 in that order, for  *)
(* every input, also when fewer than k candidates are ever found, and the  *)
(* call then returns a result.                                             *)
C16_AtMostEightQueries ==
    (KnnDone /\ call.k >= 1 /\ call.use_index) =>
        /\ Returned
        /\ Len(result.queries) <= 8
        /\ result.queries = SubSeq(<<50, 100, 200, 400, 800, 1600, 3200, 6400>>,
                                   1, Len(result.queries))

C16_Witness ==
    /\ KnnDone /\ call.k = 2 /\ call.use_index /\ Returned
    /\ result.queries = Doubling(50, 8)
    /\ Len(result.value.features) = 2
    /\ \E j \in 1..2 : DistToTarget(result.value.features[j]) > Sq(6400)

(* C17: nearest_optimized on a target collection with no features is not   *)
(* an error: the call returns (a "no result" outcome) and does not raise.  *)
C17_EmptyTargetsNoError ==
    (NearestDone /\ Len(points_fc.features) = 0) => result.status # "raise"

(* a call of one of the three point queries with arguments it accepts *)
PointQueryDone ==
    \/ (TagDone \/ FilterDone) /\ call.mode \in {"contains", "covers"}
    \/ KnnDone /\ call.k >= 1

(* C18: on a FeatureCollection with no Point feature, tag_points_within,   *)
(* filter_points_within and knn_points (k >= 1) return an empty            *)
(* FeatureCollection and do not raise, with use_index true and false.      *)
C18_NoPointsGiveEmptyCollection ==
    (PointQueryDone /\ NumPoints(points_fc) = 0) =>
        (Returned /\ result.value = FeatureCollection(<<>>))

C18_Witness ==
    /\ KnnDone /\ call.k >= 1 /\ call.use_index
    /\ Len(points_fc.features) >= 1
    /\ NumPoints(points_fc) = 0
    /\ Len(result.queries) = ExpandRounds
    /\ result.value.features = <<>>

(* twice the area of the polygon with the ring of vertices ring, by the    *)
(* shoelace formula                                                        *)
RECURSIVE Shoelace(_, _)
Shoelace(ring, j) ==
    IF j >= Len(ring) THEN 0
    ELSE ring[j][1] * ring[j + 1][2] - ring[j + 1][1] * ring[j][2]
         + Shoelace(ring, j + 1)

Area2(polygon_geom) ==
    LET a == Shoelace(polygon_geom.coordinates, 1)
    IN IF a >= 0 THEN a ELSE -a

(* C19: for a polygon and dist_m > 0, buffer(polygon, dist_m) is a polygon *)
(* of strictly greater area than the input polygon and covers it entirely  *)
(* (it is convex and covers every vertex of the input).                    *)
C19_BufferGrows ==
    (BufferDone /\ call.dist_m > 0) =>
        /\ Returned
        /\ result.value.type = "Polygon"
        /\ Area2(result.value) > Area2(call.geometry)
        /\ \A j \in DOMAIN call.geometry.coordinates :
               Locate(shape(result.value),
                      shape(PointGeom(call.geometry.coordinates[j]))) # "exterior"

C19_Witness ==
    /\ BufferDone
    /\ call.geometry = Square /\ call.dist_m = 3
    /\ Area2(call.geometry) = 2 * 100
    /\ Area2(result.value) = 2 * 238

(* the points to look at to compare what two rectangles (or points) have   *)
(* in common: those with the x of a vertex and the y of a vertex of either *)
Corners(g, c) ==
    LET vs == Range(g.coordinates) \cup Range(c.coordinates)
    IN {<<v[1], w[2]>> : v \in vs, w \in vs}

(* the geometries g and c have a point in common *)
Meets(g, c) == \E xy \in Corners(g, c) : OnGeom(g, xy) /\ OnGeom(c, xy)

(* the geometry inter is what g and c have in common *)
IsIntersection(inter, g, c) ==
    /\ \A j \in DOMAIN inter.coordinates :
           OnGeom(g, inter.coordinates[j]) /\ OnGeom(c, inter.coordinates[j])
    /\ \A xy \in Corners(g, c) :
           (OnGeom(g, xy) /\ OnGeom(c, xy)) => OnGeom(inter, xy)

(* C20: clip of a FeatureCollection returns exactly the input features     *)
(* whose geometry meets the clipper, in input order, each with its         *)
(* geometry replaced by what it has in common with the clipper and with    *)
(* its properties; the output never has more features than the input.      *)
C20_ClipKeepsIntersecting ==
    (ClipDone /\ call.feature_or_fc.type = "FeatureCollection") =>
        LET kept == SelectSeq(points_fc.features,
                              LAMBDA ft : Meets(ft.geometry, call.clipper_geom))
            feats == result.value.features
        IN /\ Returned
           /\ result.value.type = "FeatureCollection"
           /\ Len(feats) = Len(kept)
           /\ Len(feats) <= Len(points_fc.features)
           /\ \A j \in 1..Len(feats) :
                  /\ feats[j].type = "Feature"
                  /\ feats[j].properties = kept[j].properties
                  /\ IsIntersection(feats[j].geometry, kept[j].geometry,
                                    call.clipper_geom)

C20_Witness ==
    /\ ClipDone /\ call.feature_or_fc.type = "FeatureCollection"
    /\ call.clipper_geom = Square
    /\ Len(points_fc.features) = 2
    /\ points_fc.features[1].geometry = PointGeom(<<100, 100>>)
    /\ points_fc.features[2].geometry = PartRect
    /\ Len(result.value.features) = 1
    /\ result.value.features[1].properties.id = 2
    /\ bounds(shape(result.value.features[1].geometry)) = <<5, 5, 10, 10>>

(* C21: the analysis module provides get_bbox: a caller that imports it    *)
(* and calls it on the square (0,0)-(10,10) gets (0, 0, 10, 10).           *)
C21_GetBboxOfSquare ==
    (pc = "done" /\ call.op = "get_bbox" /\ call.geometry = Square) =>
        result = Return(<<0, 0, 10, 10>>)

GetEnvelopeDone == pc = "done" /\ call.op = "get_envelope" /\ Returned

(* the geometry g is an axis-parallel rectangle: a polygon with the area   *)
(* of its x range times its y range                                        *)
IsRectangle(g) ==
    /\ g.type = "Polygon"
    /\ LET xs == {v[1] : v \in Range(g.coordinates)}
           ys == {v[2] : v \in Range(g.coordinates)}
       IN \E x0 \in xs, x1 \in xs, y0 \in ys, y1 \in ys :
              /\ \A x \in xs : x0 <= x /\ x <= x1
              /\ \A y \in ys : y0 <= y /\ y <= y1
              /\ Area2(g) = 2 * (x1 - x0) * (y1 - y0)

(* C22: get_envelope returns the smallest axis-aligned rectangle that      *)
(* encloses the geometry: the result is an axis-aligned rectangle (a       *)
(* segment or a point when the input has no width or no height), every     *)
(* vertex of the input lies within it, each of its four sides touches the  *)
(* input, and the envelope of an axis-aligned rectangle is that rectangle  *)
(* (same vertices, equal area).                                            *)
C22_EnvelopeIsSmallestBox ==
    GetEnvelopeDone =>
        LET g == call.geometry
            env == result.value
            vs == Range(g.coordinates)
            es == Range(env.coordinates)
        IN /\ env.type = "Polygon" => IsRectangle(env)
           /\ env.type # "Polygon" =>
                  \/ \A v \in vs, w \in vs : v[1] = w[1]
                  \/ \A v \in vs, w \in vs : v[2] = w[2]
           /\ \A v \in vs : OnGeom(env, v)
           /\ \A e \in es : (\E v \in vs : v[1] = e[1]) /\ (\E v \in vs : v[2] = e[2])
           /\ IsRectangle(g) => (es = vs /\ Area2(env) = Area2(g))

C22_Witness ==
    /\ GetEnvelopeDone
    /\ call.geometry = PolygonGeom(<<<<0, 0>>, <<2, 1>>, <<1, 2>>, <<0, 0>>>>)
    /\ result.value = mapping(BoxShape(<<0, 0, 2, 2>>))
    /\ Area2(result.value) > Area2(call.geometry)

(* the number of Point features within the square of half-side r around    *)
(* the target of the call                                                  *)
NumInSquare(r) ==
    LET t == call.target_point_geom.coordinates[1]
    IN Cardinality({j \in 1..Len(points_fc.features) :
           LET g == points_fc.features[j].geometry
           IN /\ g.type = "Point"
              /\ g.coordinates[1][1] - t[1] <= r /\ t[1] - g.coordinates[1][1] <= r
              /\ g.coordinates[1][2] - t[2] <= r /\ t[2] - g.coordinates[1][2] <= r})

(* C23: when the 8 expansion rounds of the indexed k-NN search end with    *)
(* fewer than k candidates, the call returns what use_index=False returns  *)
(* for the same inputs: the same features, properties included.            *)
C23_FallbackEqualsBruteForce ==
    (KnnDone /\ call.use_index /\ Returned /\ NumInSquare(6400) < call.k) =>
        /\ Len(result.queries) = 8
        /\ \A r \in knn_points(points_fc, call.target_point_geom, call.k, FALSE) :
               r.status = "return" /\ r.value = result.value

C23_Witness ==
    /\ KnnDone /\ call.use_index /\ Returned /\ call.k = 2
    /\ NumInSquare(6400) = 1
    /\ NumPoints(points_fc) >= 3
    /\ Len(result.value.features) = 2
    /\ DistToTarget(result.value.features[1]) < Sq(6400)
    /\ DistToTarget(result.value.features[2]) > Sq(6400)

(* the radius of the last range query of the call *)
LastRadius == result.queries[Len(result.queries)]

(* the indexed search stopped with at least k candidates *)
StoppedWithK ==
    /\ KnnDone /\ call.use_index /\ Returned
    /\ result.queries # <<>>
    /\ NumInSquare(LastRadius) >= call.k

Distances(feats) == [j \in 1..Len(feats) |-> feats[j].properties.distance_m]

(* C26: when the expansion loop of the indexed k-NN search stops at radius *)
(* r with at least k candidates, every input point within distance r of    *)
(* the target is a candidate; and whenever the k-th smallest candidate     *)
(* distance is <= r, the returned distances are those of use_index=False.  *)
C26_CandidatesHoldDisk ==
    StoppedWithK =>
        LET pf == SelectSeq(points_fc.features, LAMBDA ft : ft.geometry.type = "Point")
            feats == result.value.features
        IN /\ \A i \in 1..Len(pf) :
                  DistToTarget(pf[i]) <= Sq(LastRadius) => (i - 1) \in result.candidates
           /\ (Len(feats) = call.k /\ DistToTarget(feats[call.k]) <= Sq(LastRadius)) =>
                  \A r \in knn_points(points_fc, call.target_point_geom, call.k, FALSE) :
                      r.status = "return"
                      /\ Distances(r.value.features) = Distances(feats)

C26_Witness ==
    /\ StoppedWithK /\ call.k = 2
    /\ LastRadius = 100
    /\ Distances(result.value.features) = <<Sq(51), Sq(60)>>
    /\ Cardinality(result.candidates) < NumPoints(points_fc)

(* the candidate set of the indexed path of the call: the 0-based          *)
(* positions, among the Point features, that the range query with the      *)
(* polygon reports                                                         *)
CandidateIdx ==
    LET pf == SelectSeq(points_fc.features, LAMBDA ft : ft.geometry.type = "Point")
    IN TreeQuery([j \in 1..Len(pf) |-> bounds(shape(pf[j].geometry))],
                 bounds(shape(call.polygon_geom)))

(* C24: in the indexed path of tag_points_within the candidate set has no  *)
(* false negatives: every point the polygon covers (so every point it      *)
(* contains) is a candidate, hence no point tagged false as a              *)
(* non-candidate satisfies the exact predicate; a candidate that lies      *)
(* outside the polygon is tagged false.                                    *)
C24_NoFalseNegatives ==
    (TagDone /\ call.use_index /\ Returned) =>
        LET feats == result.value.features
        IN \A j \in 1..Len(feats) :
               LET where == Region(call.polygon_geom, feats[j].geometry.coordinates[1])
                   tag == feats[j].properties[call.prop]
               IN /\ where # "exterior" => (j - 1) \in CandidateIdx
                  /\ (j - 1) \notin CandidateIdx => (tag = FALSE /\ where = "exterior")
                  /\ ((j - 1) \in CandidateIdx /\ where = "exterior") => tag = FALSE

C24_Witness ==
    /\ TagDone /\ call.use_index /\ Returned /\ call.polygon_geom = Triangle
    /\ Len(result.value.features) = 3
    /\ CandidateIdx = {0, 1}
    /\ Tags(result.value.features, call.prop) = <<TRUE, FALSE, FALSE>>
    /\ result.value.features[2].geometry = PointGeom(<<8, 8>>)
    /\ result.value.features[3].geometry = PointGeom(<<20, 20>>)

C27_ValidationOrder ==
    KnnDone =>
        IF call.k <= 0
        THEN result = RaiseWith("ValueError", "k must be > 0")
        ELSE IF call.target_point_geom.type # "Point"
        THEN result = RaiseWith("ValueError",
                                "target_point_geom must be a Point geometry")
        ELSE IF points_fc.type # "FeatureCollection"
        THEN result = RaiseWith("ValueError",
                                "points_fc must be a GeoJSON FeatureCollection")
        ELSE Returned

C27_Witness ==
    /\ KnnDone /\ call.use_index
    /\ call.k <= 0
    /\ call.target_point_geom.type # "Point"
    /\ points_fc.type # "FeatureCollection"
    /\ result.msg = "k must be > 0"

(* the task run last returned, and it was the task of this name *)
TaskDone(task) ==
    /\ call.op = "demo"
    /\ result.status = "return"
    /\ result.value.task = task

(* C28: when the clip result file exists and no sampled-points file        *)
(* exists, task_report analyses the Point features of the clip result and  *)
(* no other: a point of the original data that was clipped away is not in  *)
(* the report.                                                             *)
C28_ReportOnlyClippedPoints ==
    (/\ TaskDone("task_report")
     /\ exists(call.files, path_clip)
     /\ ~exists(call.files, path_sampled))
    => /\ result.value.target_points
            = point_features(json_load(call.files, path_clip).features)
       /\ \A i \in 1..Len(result.value.report_data) :
              \E ft \in Range(json_load(call.files, path_clip).features) :
                  /\ ft.geometry.type = "Point"
                  /\ ft.properties.name = result.value.report_data[i].Name

BaseTitles == {"Clipped", "Buffer", "Original Data"}

(* C29: whatever tasks ran before, task_viz draws one base layer: the      *)
(* clip result if its file exists, otherwise the buffer result if its      *)
(* file exists, otherwise the original data.  It does not open the buffer  *)
(* file when the clip file exists, and the base layer is not empty.        *)
C29_VizBaseLayer ==
    TaskDone("task_viz") =>
        LET v == result.value
            files == call.files
            base_titles == SelectSeq(v.title_parts, LAMBDA t : t \in BaseTitles)
        IN /\ v.base # <<>>
           /\ SubSeq(v.viz_features, 1, Len(v.base)) = v.base
           /\ Len(base_titles) = 1
           /\ IF exists(files, path_clip)
              THEN /\ v.base = json_load(files, path_clip).features
                   /\ base_titles = <<"Clipped">>
                   /\ path_buf \notin Range(v.opened)
              ELSE IF exists(files, path_buf)
              THEN /\ v.base = <<Feature(json_load(files, path_buf), [type |-> "Buffer"])>>
                   /\ base_titles = <<"Buffer">>
              ELSE /\ v.base = points_fc.features
                   /\ base_titles = <<"Original Data">>

(* task_viz has run with both the clip file and the buffer file in out/ *)
C29_Witness ==
    /\ TaskDone("task_viz")
    /\ exists(call.files, path_clip)
    /\ exists(call.files, path_buf)
    /\ Len(result.value.base) > 1

(* the keys of MENU among the elements of a line, in the order entered *)
KeysOf(line) == SelectSeq(line, LAMBDA w : w \in DOMAIN MENU)

(* the keys whose task was called for the present input *)
RanKeys == [i \in 1..Len(call.ran) |-> call.ran[i][1]]

MenuLoopInv ==
    /\ pc \in {"menu", "for", "pause", "exited"}
    /\ pc = "exited" => call.user_input \in {<<"0">>, <<"q">>, <<"exit">>, <<"quit">>}
    /\ pc \in {"for", "pause"} =>
           RanKeys \o KeysOf(call.selection_keys) = KeysOf(call.user_input)
    /\ pc = "pause" => RanKeys = KeysOf(call.user_input)

MenuLoopStep ==
    /\ (pc = "for" /\ call'.ran # call.ran /\ result'.status = "raise") => pc' = "for"
    /\ (pc = "for" /\ call.selection_keys = <<>>) => pc' \in {"pause", "menu"}
    /\ pc = "pause" => pc' = "menu"
    /\ pc' = "exited" => pc = "menu"

(* C30: in the menu loop an exception raised by a selected task is caught  *)
(* and the loop goes on: the tasks of the keys that follow in the same     *)
(* input are called in the order entered, and the menu comes back after    *)
(* the pause.  The loop ends only on an input that, stripped of blanks at  *)
(* its ends, is one of 0, q, exit, quit.                                   *)
C30_MenuLoop == [](call.op = "demo" => MenuLoopInv) /\ [][MenuLoopStep]_vars

(* a task raised, the task of the next key of the same input was called,   *)
(* and the menu is shown again                                             *)
C30_Witness ==
    /\ call.op = "demo"
    /\ pc = "menu"
    /\ Len(call.ran) = 2
    /\ call.ran[1] = <<"11", "raise">>
    /\ call.ran[2] = <<"3", "return">>

====
